---- MODULE Spec2Model ----
(***************************************************************************)
(* State-machine model of scripts/oracle_updater.py: main() resolves the   *)
(* ticker list and the configuration, then run_once / run_watch drive      *)
(* fetch_price_yahoo and build_and_send_setprice over the tickers.         *)
(* Every call that leaves the process (price source, JSON-RPC node) is one *)
(* action whose outcome is chosen nondeterministically.                    *)
(***************************************************************************)
EXTENDS Integers, Sequences, FiniteSets, TLC

(* ---------------------------------------------------------------- bounds *)
\* longest comma-separated input given to --ticker / TICKERS, in entries
MaxEntries == 2
\* cycles run_watch is followed for
MaxCycles == 2

(* ------------------------------------------------------------- constants *)
Bytes32Len == 32
DefaultGas == 200000
FallbackBaseFee == 1000000000
\* GAS_MULTIPLIER and the 0.1 priority share are kept as tenths
DefaultGasMultiplier == 11
PriorityTenths == 1

VARIABLES
    pc,            \* position of the single thread of control
    tickers,       \* main: the resolved ticker list
    dry_run,       \* the dry_run flag the runner was called with
    mode,          \* "once" | "watch" | "-" : the runner main dispatched to
    interval,      \* run_watch: the interval it was called with
    gasMult,       \* GAS_MULTIPLIER, in tenths
    cycle,         \* number of run_once calls started
    i,             \* run_once: index of the ticker being processed
    fetched,       \* indices whose price fetch was started in this cycle
    lastError,     \* the exception run_once's except logged for this ticker
    calls,         \* external calls issued while processing the current ticker
    tx,            \* build_and_send_setprice: the transaction being built
    result,        \* what the last build_and_send_setprice call returned
    waitOutcome,   \* outcome of wait_for_transaction_receipt for this ticker
    mined,         \* node: the signer's transaction count at block "latest"
    mempool,       \* node: nonces of the signer's transactions not yet mined
    interruptedAt  \* where a KeyboardInterrupt was delivered, "-" if none

vars == << pc, tickers, dry_run, mode, interval, gasMult, cycle, i, fetched,
           lastError, calls, tx, result, waitOutcome, mined, mempool,
           interruptedAt >>

cfgVars == << tickers, dry_run, mode, interval, gasMult >>
loopVars == << cycle, i, fetched >>
iterVars == << lastError, calls, tx, result, waitOutcome >>
chainVars == << mined, mempool >>

NoTx == [nonce |-> -1]

(* ------------------------------------------------- strings and encodings *)
Rep(c, n) == [k \in 1..n |-> c]

SymA == <<"A">>
SymB == <<"B">>
Max32 == Rep("A", Bytes32Len)
\* 11 euro signs (code point U+20AC, three bytes each): 11 characters, 33 bytes
Euro11 == Rep("U+20AC", 11)

\* str.encode("utf-8") of one character
Utf8Char(c) ==
    CASE c = "A" -> <<65>>
      [] c = "B" -> <<66>>
      [] c = " " -> <<32>>
      [] c = "," -> <<44>>
      [] c = "U+20AC" -> <<226, 130, 172>>

RECURSIVE Utf8(_)
Utf8(s) == IF s = <<>> THEN <<>> ELSE Utf8Char(Head(s)) \o Utf8(Tail(s))

\* variant: the length test counts characters, not encoded bytes
symbol_to_bytes32_raises_chars(sym) == Len(sym) > Bytes32Len

\* if len(b) > 32: raise ValueError
symbol_to_bytes32_raises(sym) == Len(Utf8(sym)) > Bytes32Len

\* b.ljust(32, b"\0"); only evaluated when symbol_to_bytes32_raises is false
symbol_to_bytes32(sym) ==
    LET b == Utf8(sym)
    IN  b \o Rep(0, Bytes32Len - Len(b))

(* ------------------------------------------------------ ticker resolution *)
RECURSIVE Split(_, _)
\* str.split(","): the pieces between commas, empty pieces kept;
\* acc is the piece being read
Split(s, acc) ==
    IF s = <<>> THEN <<acc>>
    ELSE IF Head(s) = "," THEN <<acc>> \o Split(Tail(s), <<>>)
    ELSE Split(Tail(s), Append(acc, Head(s)))

RECURSIVE LStrip(_)
LStrip(s) == IF s # <<>> /\ Head(s) = " " THEN LStrip(Tail(s)) ELSE s

RECURSIVE RStrip(_)
RStrip(s) ==
    IF s # <<>> /\ s[Len(s)] = " " THEN RStrip(SubSeq(s, 1, Len(s) - 1)) ELSE s

Strip(s) == RStrip(LStrip(s))

RECURSIVE KeepNonBlank(_)
KeepNonBlank(ps) ==
    IF ps = <<>> THEN <<>>
    ELSE IF Strip(Head(ps)) # <<>>
         THEN <<Strip(Head(ps))>> \o KeepNonBlank(Tail(ps))
         ELSE KeepNonBlank(Tail(ps))

\* [s.strip() for s in text.split(",") if s.strip()]
ParseTickers(text) == KeepNonBlank(Split(text, <<>>))

RECURSIVE Join(_)
Join(es) ==
    IF es = <<>> THEN <<>>
    ELSE IF Len(es) = 1 THEN es[1]
    ELSE es[1] \o <<",">> \o Join(Tail(es))

RawEntries == { <<>>, <<" ">>, <<" ">> \o SymA \o <<" ">>, Max32, Euro11 }

\* the texts --ticker and TICKERS are drawn from; <<>> is also "not given"
TickerTexts ==
    { Join(es) : es \in UNION { [1..n -> RawEntries] : n \in 0..MaxEntries } }

EnvTexts == { <<>>, <<",">>, SymB }

(* ------------------------------------------------------------ input sets *)
GasMultipliers == { 5, 10, DefaultGasMultiplier }
GasEstimates == { 21000, 45123 }
BaseFees == { 25 }
Intervals == { -1, 60 }

FetchOps == { "fast_info", "history", "info" }
ReadRpcOps == { "get_transaction_count", "estimate_gas", "gas_price" }
WriteRpcOps == { "send_raw_transaction", "wait_for_transaction_receipt" }
RpcOps == ReadRpcOps \cup WriteRpcOps

Init ==
    /\ pc = "main"
    /\ tickers = <<>>
    /\ dry_run = FALSE
    /\ mode = "-"
    /\ interval = 60
    /\ gasMult \in GasMultipliers
    /\ cycle = 0
    /\ i = 0
    /\ fetched = <<>>
    /\ lastError = "-"
    /\ calls = <<>>
    /\ tx = NoTx
    /\ result = "-"
    /\ waitOutcome = "-"
    /\ mined = 0
    /\ mempool = {}
    /\ interruptedAt = "-"

(* ------------------------------------------------------------------ main *)
\* sys.exit(1)
Exit1 == pc' = "exit1"

NoTickers == [exit |-> TRUE, tickers |-> <<>>]

\* the --ticker / TICKERS fallback: the list main goes on with, or the exit
ResolveTickers(arg, env) ==
    IF arg # <<>> THEN [exit |-> FALSE, tickers |-> ParseTickers(arg)]
    ELSE IF env = <<>> THEN NoTickers
    ELSE [exit |-> FALSE, tickers |-> ParseTickers(env)]

MainResolveTickers ==
    /\ pc = "main"
    /\ \E arg \in TickerTexts, env \in EnvTexts :
        LET r == ResolveTickers(arg, env)
        IN  /\ tickers' = r.tickers
            /\ IF r.exit THEN Exit1 ELSE pc' = "config"
    /\ UNCHANGED << dry_run, mode, interval, gasMult >>
    /\ UNCHANGED << loopVars, iterVars, chainVars, interruptedAt >>

\* oracle address checksum, then rpc / oracle / pk presence
MainConfig ==
    /\ pc = "config"
    /\ \E rpc \in BOOLEAN, oracle \in { "", "bad", "ok" }, pk \in BOOLEAN :
        IF oracle = "bad" \/ ~rpc \/ oracle = "" \/ ~pk
        THEN Exit1
        ELSE pc' = "connect"
    /\ UNCHANGED << cfgVars, loopVars, iterVars, chainVars, interruptedAt >>

MainConnect ==
    /\ pc = "connect"
    /\ calls' = Append(calls, "is_connected")
    /\ \E connected \in BOOLEAN :
        IF connected THEN pc' = "dispatch" ELSE Exit1
    /\ UNCHANGED << cfgVars, loopVars, lastError, tx, result, waitOutcome, chainVars, interruptedAt >>

\* entry of run_once: ts = int(time.time()), the for loop starts
StartCycle ==
    /\ cycle' = cycle + 1
    /\ i' = 0
    /\ fetched' = <<>>
    /\ pc' = "loop"

MainDispatch ==
    /\ pc = "dispatch"
    /\ \E once \in BOOLEAN, watch \in BOOLEAN, dr \in BOOLEAN, iv \in Intervals :
        IF once
        THEN /\ mode' = "once"
             /\ dry_run' = dr
             /\ interval' = interval
             /\ StartCycle
        ELSE IF watch
        THEN /\ mode' = "watch"
             /\ dry_run' = dr
             /\ interval' = iv
             /\ pc' = "watch_top"
             /\ UNCHANGED << cycle, i, fetched >>
        ELSE /\ pc' = "exit0"
             /\ UNCHANGED << mode, dry_run, interval, cycle, i, fetched >>
    /\ UNCHANGED << tickers, gasMult, iterVars, chainVars, interruptedAt >>

(* -------------------------------------------------------------- run_once *)
\* variant: the exception ends the for loop
OnTickerException_Abort(e) ==
    /\ lastError' = e
    /\ pc' = IF mode = "once" THEN "exit0" ELSE "interval"

\* except Exception as e: logger.exception(...); the for loop goes on
OnTickerException(e) ==
    /\ lastError' = e
    /\ pc' = "loop"

\* for t in tickers: the next ticker, its per-ticker state fresh
ForNext ==
    /\ pc = "loop"
    /\ i < Len(tickers)
    /\ i' = i + 1
    /\ pc' = "fast_info"
    /\ lastError' = "-"
    /\ calls' = <<>>
    /\ tx' = NoTx
    /\ result' = "-"
    /\ waitOutcome' = "-"
    /\ UNCHANGED << cfgVars, cycle, fetched, chainVars, interruptedAt >>

\* the for loop is exhausted: run_once returns to main or to run_watch
ForDone ==
    /\ pc = "loop"
    /\ i = Len(tickers)
    /\ pc' = IF mode = "once" THEN "exit0" ELSE "interval"
    /\ UNCHANGED << cfgVars, loopVars, iterVars, chainVars, interruptedAt >>

\* time.sleep(0.8) after a ticker whose update returned
PauseBetweenSymbols ==
    /\ pc = "pause"
    /\ pc' = "loop"
    /\ UNCHANGED << cfgVars, loopVars, iterVars, chainVars, interruptedAt >>

(* ----------------------------------------------------- fetch_price_yahoo *)
FetchOutcomes == { "value", "nan", "none", "error" }

\* a strategy raised: the except clause logs a warning and control falls to
\* the raise RuntimeError after the try statement
StrategyRaised(nextPc) == OnTickerException("failed to fetch price")

\* a strategy returned without a value: the next one, or the final raise
StrategyEmpty(nextPc) ==
    IF nextPc = "raise"
    THEN OnTickerException("failed to fetch price")
    ELSE /\ pc' = nextPc
         /\ UNCHANGED lastError

\* a strategy returned a float: run_once scales it and calls
\* build_and_send_setprice; int(round(nan * PRICE_SCALE)) raises ValueError
StrategyValue(o) ==
    IF o = "nan"
    THEN OnTickerException("cannot convert float NaN to integer")
    ELSE /\ pc' = "build"
         /\ UNCHANGED lastError

Strategy(op, nextPc) ==
    /\ calls' = Append(calls, op)
    /\ \E o \in FetchOutcomes :
        CASE o = "error" -> StrategyRaised(nextPc)
          [] o = "none" -> StrategyEmpty(nextPc)
          [] OTHER -> StrategyValue(o)
    /\ UNCHANGED << cfgVars, cycle, i, tx, result, waitOutcome, chainVars, interruptedAt >>

FastInfo ==
    /\ pc = "fast_info"
    /\ fetched' = Append(fetched, i)
    /\ Strategy("fast_info", "history")

History ==
    /\ pc = "history"
    /\ fetched' = fetched
    /\ Strategy("history", "info")

QuoteInfo ==
    /\ pc = "info"
    /\ fetched' = fetched
    /\ Strategy("info", "raise")

(* ----------------------------------------------- build_and_send_setprice *)
\* an exception leaves build_and_send_setprice and reaches run_once's except
Raise(e) ==
    /\ result' = "raised"
    /\ tx' = NoTx
    /\ OnTickerException(e)

\* build_and_send_setprice returns r; run_once goes on to time.sleep(0.8)
Return(r) ==
    /\ result' = r
    /\ tx' = NoTx
    /\ pc' = "pause"
    /\ UNCHANGED lastError

\* variant: the product is rounded up
GasLimit_Ceil(est) == (est * gasMult + 9) \div 10

\* int(gas_est * GAS_MULTIPLIER)
GasLimit(est) == (est * gasMult) \div 10

\* the except branch of the gas estimate
FallbackGasLimit == DefaultGas

\* int(base_fee * 0.1)
MaxPriority(base_fee) == (base_fee * PriorityTenths) \div 10

\* variant: the flag is not looked at
DryRunIgnored == FALSE

\* if dry_run: log and return None
DryRunReturns == dry_run

\* symbol_to_bytes32, then build_transaction with the signer's transaction
\* count; get_transaction_count reads block "latest": pending ones not counted
BuildTx ==
    /\ pc = "build"
    /\ IF symbol_to_bytes32_raises(tickers[i])
       THEN /\ Raise("symbol too long for bytes32")
            /\ UNCHANGED calls
       ELSE /\ calls' = Append(calls, "get_transaction_count")
            /\ \E ok \in BOOLEAN :
                IF ok
                THEN /\ tx' = [ nonce |-> mined,
                                symbol_bytes |-> symbol_to_bytes32(tickers[i]),
                                est |-> 0, gas |-> 0, base_fee |-> 0,
                                max_priority |-> 0, max_fee |-> 0,
                                signed |-> FALSE ]
                     /\ pc' = "estimate"
                     /\ UNCHANGED << result, lastError >>
                ELSE Raise("rpc error")
    /\ UNCHANGED << cfgVars, cycle, i, fetched, waitOutcome, chainVars, interruptedAt >>

\* w3.eth.estimate_gas(tx); est = -1 records that the estimate failed
EstimateGas ==
    /\ pc = "estimate"
    /\ calls' = Append(calls, "estimate_gas")
    /\ \E ok \in BOOLEAN, gas_est \in GasEstimates :
        tx' = IF ok
              THEN [tx EXCEPT !.est = gas_est, !.gas = GasLimit(gas_est)]
              ELSE [tx EXCEPT !.est = -1, !.gas = FallbackGasLimit]
    /\ pc' = "fee"
    /\ UNCHANGED << cfgVars, loopVars, lastError, result, waitOutcome, chainVars, interruptedAt >>

\* variant: the dry-run return sits above the fee lookup
GasPrice_DryBeforeFee ==
    /\ pc = "fee"
    /\ IF dry_run
       THEN /\ Return("None")
            /\ UNCHANGED calls
       ELSE /\ calls' = Append(calls, "gas_price")
            /\ \E ok \in BOOLEAN, fee \in BaseFees :
                LET base_fee == IF ok THEN fee ELSE FallbackBaseFee
                    max_priority == MaxPriority(base_fee)
                IN  tx' = [tx EXCEPT !.base_fee = base_fee,
                                     !.max_priority = max_priority,
                                     !.max_fee = base_fee + max_priority]
            /\ pc' = "sign"
            /\ UNCHANGED << result, lastError >>
    /\ UNCHANGED << cfgVars, loopVars, waitOutcome, chainVars, interruptedAt >>

\* w3.eth.gas_price, the fee fields, tx.update, and the dry-run return
GasPrice ==
    /\ pc = "fee"
    /\ calls' = Append(calls, "gas_price")
    /\ \E ok \in BOOLEAN, fee \in BaseFees :
        LET base_fee == IF ok THEN fee ELSE FallbackBaseFee
            max_priority == MaxPriority(base_fee)
        IN  IF DryRunReturns
            THEN Return("None")
            ELSE /\ tx' = [tx EXCEPT !.base_fee = base_fee,
                                      !.max_priority = max_priority,
                                      !.max_fee = base_fee + max_priority]
                 /\ pc' = "sign"
                 /\ UNCHANGED << result, lastError >>
    /\ UNCHANGED << cfgVars, loopVars, waitOutcome, chainVars, interruptedAt >>

\* acct.sign_transaction(tx)
Sign ==
    /\ pc = "sign"
    /\ \E ok \in BOOLEAN :
        IF ok
        THEN /\ tx' = [tx EXCEPT !.signed = TRUE]
             /\ pc' = "send"
             /\ UNCHANGED << result, lastError >>
        ELSE Raise("signing error")
    /\ UNCHANGED << cfgVars, cycle, i, fetched, calls, waitOutcome, chainVars, interruptedAt >>

\* the node holds a pending transaction of the nonce being sent
NonceClash == tx.nonce \in mempool

\* w3.eth.send_raw_transaction: the node rejects it, or takes it into the
\* mempool, where it replaces a pending transaction of the same nonce
SendRaw ==
    /\ pc = "send"
    /\ calls' = Append(calls, "send_raw_transaction")
    /\ \E accepted \in BOOLEAN :
        IF accepted /\ tx.nonce >= mined
        THEN /\ mempool' = mempool \cup {tx.nonce}
             /\ pc' = "wait"
             /\ UNCHANGED << tx, result, lastError >>
        ELSE /\ Raise("broadcast rejected")
             /\ mempool' = mempool
    /\ UNCHANGED << cfgVars, cycle, i, fetched, waitOutcome, mined, interruptedAt >>

\* variant: the timeout is not caught
HandleReceipt_TimeoutRaises(o) ==
    IF o = "receipt" THEN Return("receipt") ELSE Raise("rpc error")

\* the try statement around wait_for_transaction_receipt
HandleReceipt(o) ==
    CASE o = "receipt" -> Return("receipt")
      [] o = "TimeExhausted" -> Return("None")
      [] OTHER -> Raise("rpc error")

\* w3.eth.wait_for_transaction_receipt(tx_hash, timeout=120): the transaction
\* is mined within the wait, was mined already, or stays pending
WaitReceipt ==
    /\ pc = "wait"
    /\ calls' = Append(calls, "wait_for_transaction_receipt")
    /\ \E o \in { "receipt", "TimeExhausted", "error" } :
        /\ waitOutcome' = o
        /\ HandleReceipt(o)
        /\ CASE o = "receipt" /\ tx.nonce \in mempool ->
                    /\ tx.nonce = mined
                    /\ mined' = mined + 1
                    /\ mempool' = mempool \ {tx.nonce}
             [] o = "TimeExhausted" ->
                    /\ tx.nonce \in mempool
                    /\ UNCHANGED chainVars
             [] OTHER -> UNCHANGED chainVars
    /\ UNCHANGED << cfgVars, cycle, i, fetched, interruptedAt >>

\* the node mines the pending transaction whose nonce is next
Mine ==
    /\ mined \in mempool
    /\ mempool' = mempool \ {mined}
    /\ mined' = mined + 1
    /\ UNCHANGED << pc, cfgVars, loopVars, iterVars, interruptedAt >>

(* ------------------------------------------------------------- run_watch *)
\* while True: run_once(...)
WatchTop ==
    /\ pc = "watch_top"
    /\ cycle < MaxCycles
    /\ StartCycle
    /\ UNCHANGED << cfgVars, iterVars, chainVars, interruptedAt >>

\* time.sleep(interval); a negative interval raises ValueError, which
\* neither run_watch nor main catches
IntervalSleep ==
    /\ pc = "interval"
    /\ pc' = IF interval < 0 THEN "crashed" ELSE "watch_top"
    /\ UNCHANGED << cfgVars, loopVars, iterVars, chainVars, interruptedAt >>

RunPcs == { "loop", "fast_info", "history", "info", "build", "estimate", "fee",
            "sign", "send", "wait", "pause", "interval", "watch_top" }

\* where a KeyboardInterrupt ends up: run_watch's except KeyboardInterrupt
\* logs and returns, so main returns; under --once nothing catches it
OnKeyboardInterrupt == IF mode = "watch" THEN "exit0" ELSE "killed"

\* ctrl-c: KeyboardInterrupt is raised where the thread is; no
\* except Exception clause catches it
Interrupt ==
    /\ pc \in RunPcs
    /\ interruptedAt' = pc
    /\ pc' = OnKeyboardInterrupt
    /\ UNCHANGED << cfgVars, loopVars, iterVars, chainVars >>

Next ==
    \/ MainResolveTickers
    \/ MainConfig
    \/ MainConnect
    \/ MainDispatch
    \/ ForNext
    \/ ForDone
    \/ PauseBetweenSymbols
    \/ FastInfo
    \/ History
    \/ QuoteInfo
    \/ BuildTx
    \/ EstimateGas
    \/ GasPrice
    \/ Sign
    \/ SendRaw
    \/ WaitReceipt
    \/ Mine
    \/ WatchTop
    \/ IntervalSleep
    \/ Interrupt

Spec == Init /\ [][Next]_vars

(* ------------------------------------------------------------ properties *)
Iota(n) == [k \in 1..n |-> k]

\* inside build_and_send_setprice
BuildPcs == { "build", "estimate", "fee", "sign", "send", "wait" }
\* the runner is no longer inside a cycle
CycleOverPcs == { "exit0", "interval", "watch_top", "crashed" }
\* the process is over
EndPcs == { "exit0", "exit1", "crashed", "killed" }

Count(op) == Cardinality({ k \in 1..Len(calls) : calls[k] = op })
NoCallIn(ops) == \A k \in 1..Len(calls) : calls[k] \notin ops
IsRpc(op) == op \in RpcOps
Uninterrupted == interruptedAt = "-"

\* a cycle is on a ticker whose UTF-8 encoding exceeds 32 bytes
LongCurrent == cycle >= 1 /\ i >= 1 /\ Len(Utf8(tickers[i])) > Bytes32Len

\* C1: in dry-run mode nothing is signed or broadcast, whatever the tickers
\* and the outcomes of the fetch, the gas estimate and the fee lookup, and
\* build_and_send_setprice never returns a receipt: it returns None.
C1_DryRunNeverBroadcasts ==
    dry_run =>
        /\ NoCallIn({"send_raw_transaction"})
        /\ pc \notin { "sign", "send", "wait" }
        /\ (tx # NoTx => ~tx.signed)
        /\ mempool = {}
        /\ mined = 0
        /\ result \in { "-", "None", "raised" }
        /\ (pc = "pause" => result = "None")

C1_Witness ==
    /\ dry_run
    /\ mode = "watch"
    /\ cycle = 2
    /\ pc = "pause"
    /\ result = "None"
    /\ i = 2

\* C2: within a cycle every ticker gets its price fetch started, in list
\* order, whatever happened to the tickers before it: a failure on one
\* ticker never ends the cycle early.
C2_EveryTickerFetched ==
    (Uninterrupted /\ cycle >= 1) =>
        /\ fetched = IF pc = "fast_info" THEN Iota(i - 1) ELSE Iota(i)
        /\ (pc \in CycleOverPcs => i = Len(tickers))

C2_Witness ==
    /\ Uninterrupted
    /\ mode = "once"
    /\ pc = "exit0"
    /\ Len(tickers) = 2
    /\ tickers[1] = Euro11
    /\ fetched = <<1, 2>>
    /\ result = "receipt"

\* C3: a fetch fails hard only when all three strategies have been tried:
\* an error raised by one strategy counts as "no value" and the next
\* strategy is still attempted.
C3_Claim ==
    lastError = "failed to fetch price" => calls = <<"fast_info", "history", "info">>

\* C4 as claimed: for a symbol longer than 32 bytes the update fails with
\* the symbol-too-long error before any price-source request and any RPC
\* call is made for it.
C4_Claim ==
    LongCurrent =>
        /\ NoCallIn(FetchOps \cup RpcOps)
        /\ tx = NoTx
        /\ (pc = "loop" => lastError = "symbol too long for bytes32")

\* C4 amended: for a symbol longer than 32 bytes the price source is asked
\* first; the update then fails before any RPC call is made for it, with the
\* symbol-too-long error exactly when build_and_send_setprice was reached,
\* and a transaction only ever carries the whole symbol, zero-padded to 32
\* bytes.
C4_LongSymbolFailsBeforeRpc ==
    /\ LongCurrent =>
        /\ NoCallIn(RpcOps)
        /\ tx = NoTx
        /\ pc \notin { "estimate", "fee", "sign", "send", "wait", "pause" }
        /\ result \in { "-", "raised" }
        /\ (pc = "loop" /\ Uninterrupted => lastError # "-")
        /\ (result = "raised" <=> lastError = "symbol too long for bytes32")
    /\ tx # NoTx =>
        LET b == Utf8(tickers[i])
        IN  /\ Len(tx.symbol_bytes) = Bytes32Len
            /\ SubSeq(tx.symbol_bytes, 1, Len(b)) = b
            /\ \A k \in (Len(b) + 1)..Bytes32Len : tx.symbol_bytes[k] = 0

C4_Witness ==
    /\ LongCurrent
    /\ pc = "loop"
    /\ calls = <<"fast_info", "history">>
    /\ lastError = "symbol too long for bytes32"
    /\ result = "raised"

\* C5: when the wait for the receipt times out, build_and_send_setprice
\* returns None and raises nothing to the run loop, which goes on past this
\* ticker; the transaction was broadcast once and is not sent again.
C5_TimeoutReturnsNone ==
    (waitOutcome = "TimeExhausted" /\ Uninterrupted) =>
        /\ result = "None"
        /\ lastError = "-"
        /\ pc \in {"pause", "loop"} \cup CycleOverPcs
        /\ Count("send_raw_transaction") = 1
        /\ Count("wait_for_transaction_receipt") = 1
        /\ calls[Len(calls)] = "wait_for_transaction_receipt"
        /\ tx = NoTx

C5_Witness ==
    /\ waitOutcome = "TimeExhausted"
    /\ Uninterrupted
    /\ pc = "loop"
    /\ i < Len(tickers)
    /\ mempool # {}

\* C6: in watch mode (stated here for a non-empty ticker list) the loop ends
\* only on an interruption, and an interruption during the sleep between
\* cycles makes run_watch return normally, the process being over without a
\* new cycle.
C6_Claim ==
    (mode = "watch" /\ tickers # <<>>) =>
        /\ (pc \in EndPcs => ~Uninterrupted)
        /\ (interruptedAt = "interval" => pc = "exit0")

\* the interruption half of C6: once interrupted, nothing is fetched, built
\* or sent and no cycle starts; in watch mode the process ends with exit 0
InterruptStopsCleanly ==
    [][~Uninterrupted =>
          /\ UNCHANGED << pc, cycle, i, fetched, calls, tx, result >>
          /\ (mode = "watch" => pc = "exit0")]_vars

\* C7: when the resolved ticker list is empty the process exits with code 1
\* before any network activity, never reaching the connectivity check or a
\* cycle.
C7_Claim ==
    (pc # "main" /\ tickers = <<>>) =>
        /\ pc = "exit1"
        /\ calls = <<>>
        /\ cycle = 0

\* C8 as claimed: with dry_run true no RPC call is issued between entering
\* build_and_send_setprice and its return.
C8_Claim ==
    (dry_run /\ pc \in BuildPcs \cup {"pause"}) => NoCallIn(RpcOps)

\* C8 amended: with dry_run true build_and_send_setprice issues the three
\* read calls (nonce lookup, gas estimate, fee lookup), in this order, and
\* returns None without a broadcast or a receipt wait.
C8_DryRunReadsOnly ==
    (dry_run /\ cycle >= 1) =>
        /\ NoCallIn(WriteRpcOps)
        /\ (pc = "pause" =>
                /\ result = "None"
                /\ SelectSeq(calls, IsRpc)
                     = <<"get_transaction_count", "estimate_gas", "gas_price">>)

C8_Witness ==
    /\ dry_run
    /\ pc = "pause"
    /\ calls = <<"fast_info", "get_transaction_count", "estimate_gas", "gas_price">>
    /\ mode = "once"

\* the estimate the gas limit is derived from, the default when it failed
GasBase == IF tx.est = -1 THEN DefaultGas ELSE tx.est
GasSet == tx # NoTx /\ pc \in { "fee", "sign", "send", "wait" }

\* C9 as claimed: the gas limit is floor(g * multiplier), g being the
\* estimate or, when the estimate failed, the default 200,000; so it is at
\* least g when the multiplier is at least 1.
C9_Claim ==
    GasSet =>
        /\ tx.gas = (GasBase * gasMult) \div 10
        /\ (gasMult >= 10 => tx.gas >= GasBase)

\* C9 amended: the gas limit is floor(estimate * multiplier) when the
\* estimate succeeds and exactly the default 200,000, with no multiplier
\* applied, when it fails; so it is at least g when the multiplier is at
\* least 1.
C9_GasLimit ==
    GasSet =>
        /\ tx.gas = IF tx.est = -1 THEN DefaultGas ELSE (tx.est * gasMult) \div 10
        /\ (gasMult >= 10 => tx.gas >= GasBase)

C9_Witness ==
    /\ GasSet
    /\ tx.est = -1
    /\ gasMult = DefaultGasMultiplier
    /\ tx.gas = DefaultGas

\* C10: a transaction is never broadcast with the nonce of an earlier
\* broadcast transaction that is still pending.
C10_Claim ==
    [][(pc = "send" /\ calls' = Append(calls, "send_raw_transaction"))
          => ~NonceClash]_vars

====
